---- MODULE Spec2Model ----
(***************************************************************************)
(* Wall-distance computation of the DG-FEM mesh,                           *)
(* CMeshFEM_DG::ComputeWall_Distance (Common/src/fem_wall_distance.cpp).    *)
(*                                                                         *)
(* Indices (mesh points, local surface points, markers, elements,          *)
(* integration points, buffer offsets) are 0-based as in the C++ code;     *)
(* a TLA+ sequence holding a C++ vector is read at index + 1.              *)
(*                                                                         *)
(* Real numbers: mesh coordinates are integers, basis-function weights are *)
(* numerators over LagDen, and a distance is held as its exact square, a   *)
(* reduced fraction <<num, den>> (<<0, 1>> is the distance 0.0 and         *)
(* <<1, 0>> is +infinity).  Squaring is strictly monotone on distances, so *)
(* comparisons and the test "== 0" are those of the code.                  *)
(***************************************************************************)
EXTENDS Integers, Sequences, FiniteSets, Bags, TLC

VARIABLES
  pc,                 \* position inside ComputeWall_Distance
  meshPoints,         \* meshPoints[i].coor
  boundaries,         \* boundaries[iMarker]: periodicBoundary, surfElem, VecWallDistanceBoundaryFaces
  KindBC,             \* config->GetMarker_All_KindBC(iMarker)
  volElem,            \* volElem[l]: indStandardElement, nDOFsGrid, nodeIDsGrid, wallDistance
  nVolElemOwned,
  matchingFaces,      \* matchingFaces[l]: indStandardElement, DOFsGridFaceSide0, wallDistance
  VecWallDistanceElements,
  VecWallDistanceInternalMatchingFaces,
  meshToSurface, surfaceConn, elemIDs, VTK_TypeElem, markerIDs,   \* locals of step 1
  surfaceCoor, nVertex_SolidWall,
  WallADT,            \* the su2_adtElemClass object
  nIntPoints, iMarker, l,                                          \* loop locals
  coor, dist,         \* argument and result of DetermineNearestElement (query specification)
  queried,            \* history: the integration points a query was issued for
  written,            \* history: bag of the buffer slots assigned by wallDistance[i] = ...
  nInt, nDOFs, rows   \* locals of the integration-point loop (row addressing)

inputVars  == <<meshPoints, KindBC, nVolElemOwned>>
meshVars   == <<boundaries, volElem, matchingFaces>>
bufVars    == <<VecWallDistanceElements, VecWallDistanceInternalMatchingFaces>>
surfVars   == <<meshToSurface, surfaceConn, elemIDs, VTK_TypeElem, markerIDs,
                surfaceCoor, nVertex_SolidWall>>
loopVars   == <<nIntPoints, iMarker, l>>
queryVars  == <<coor, dist>>
histVars   == <<queried, written>>
addrVars   == <<nInt, nDOFs, rows>>
vars == <<pc, inputVars, meshVars, bufVars, surfVars, WallADT, loopVars,
          queryVars, histVars, addrVars>>

(***************************************************************************)
(* Bounds of the model.                                                    *)
(***************************************************************************)
MaxMarkers  == 2   \* number of boundary markers
MaxSurfElem == 2   \* surface elements of a marker that has any (a marker may have none)
MaxVolElem  == 2   \* volume elements; nVolElemOwned ranges over 0..MaxVolElem
MaxSubElems == 3   \* sub-elements of a surface handed to the tree (query specification)
MaxQuery    == 3   \* query points lie on the grid 0..MaxQuery in each direction
MaxRows     == 2   \* integration points sampled per entity (addressing specification)

(***************************************************************************)
(* Arithmetic.                                                             *)
(***************************************************************************)
nDim == 2

Min(a, b) == IF a < b THEN a ELSE b
Max(a, b) == IF a > b THEN a ELSE b

RECURSIVE GCD(_, _)
GCD(a, b) == IF b = 0 THEN a ELSE GCD(b, a % b)

\* a squared distance n/d (d > 0), reduced
Frac(n, d) == LET g == GCD(n, d) IN <<n \div g, d \div g>>
Zero     == <<0, 1>>
Infinity == <<1, 0>>
\* a < b on su2double distances
FracLess(a, b) == a[1] * b[2] < b[1] * a[2]

RECURSIVE SumSeq(_)
SumSeq(s) == IF s = <<>> THEN 0 ELSE Head(s) + SumSeq(Tail(s))

\* vectors of nDim = 2 coordinates
Dot(u, v) == u[1] * v[1] + u[2] * v[2]
Sub(u, v) == <<u[1] - v[1], u[2] - v[2]>>

\* unsigned short arithmetic: the value kept by an assignment to a 16-bit unsigned
UShort(x) == x % 65536

(***************************************************************************)
(* su2_adtElemClass: the tree of bounding boxes over the linear            *)
(* sub-elements and its nearest-element query (adt_structure.hpp, included *)
(* at line 33; construction, emptiness test and query follow sections 4.2  *)
(* and 4.3 of the design description).  In two dimensions every            *)
(* sub-element is a line segment with two points.                          *)
(***************************************************************************)
LeafSize == 1

\* the point with local index q of the coordinate buffer
SurfPoint(sCoor, q) == [k \in 1..nDim |-> sCoor[q * nDim + k]]

\* the sub-elements as the tree stores them: end points and identifying data
ADTElems(sCoor, sConn, vtk, mIDs, eIDs) ==
  [k \in 1..Len(vtk) |->
     [a        |-> SurfPoint(sCoor, sConn[2 * (k - 1) + 1]),
      b        |-> SurfPoint(sCoor, sConn[2 * (k - 1) + 2]),
      VTK_Type |-> vtk[k],
      markerID |-> mIDs[k],
      elemID   |-> eIDs[k]]]

ElemBox(e) ==
  [lo |-> [k \in 1..nDim |-> Min(e.a[k], e.b[k])],
   hi |-> [k \in 1..nDim |-> Max(e.a[k], e.b[k])]]

UnionBox(b1, b2) ==
  [lo |-> [k \in 1..nDim |-> Min(b1.lo[k], b2.lo[k])],
   hi |-> [k \in 1..nDim |-> Max(b1.hi[k], b2.hi[k])]]

EmptyBox == [lo |-> [k \in 1..nDim |-> 0], hi |-> [k \in 1..nDim |-> 0]]

RECURSIVE BoxOf(_, _)
BoxOf(ids, elems) ==
  IF ids = <<>> THEN EmptyBox
  ELSE IF Len(ids) = 1 THEN ElemBox(elems[Head(ids)])
  ELSE UnionBox(ElemBox(elems[Head(ids)]), BoxOf(Tail(ids), elems))

\* the axis of greatest extent (the lowest one among equals)
SplitAxis(box) ==
  CHOOSE k \in 1..nDim :
    /\ \A j \in 1..nDim : box.hi[k] - box.lo[k] >= box.hi[j] - box.lo[j]
    /\ \A j \in 1..(k - 1) : box.hi[j] - box.lo[j] < box.hi[k] - box.lo[k]

\* twice the box-centre coordinate of a sub-element
Center2(e, axis) == e.a[axis] + e.b[axis]

RECURSIVE InsertByCenter(_, _, _, _)
InsertByCenter(x, s, elems, axis) ==
  IF s = <<>> THEN <<x>>
  ELSE IF Center2(elems[x], axis) < Center2(elems[Head(s)], axis) THEN <<x>> \o s
  ELSE <<Head(s)>> \o InsertByCenter(x, Tail(s), elems, axis)

RECURSIVE SortByCenter(_, _, _)
SortByCenter(ids, elems, axis) ==
  IF ids = <<>> THEN <<>>
  ELSE InsertByCenter(Head(ids), SortByCenter(Tail(ids), elems, axis), elems, axis)

\* median split along the axis of greatest extent, down to LeafSize
RECURSIVE BuildNode(_, _)
BuildNode(ids, elems) ==
  LET box == BoxOf(ids, elems) IN
  IF Len(ids) <= LeafSize
  THEN [leaf |-> TRUE, box |-> box, ids |-> ids, kids |-> <<>>]
  ELSE LET srt == SortByCenter(ids, elems, SplitAxis(box))
           h   == (Len(srt) + 1) \div 2
       IN [leaf |-> FALSE, box |-> box, ids |-> <<>>,
           kids |-> <<BuildNode(SubSeq(srt, 1, h), elems),
                      BuildNode(SubSeq(srt, h + 1, Len(srt)), elems)>>]

BuildADT(dim, sCoor, sConn, vtk, mIDs, eIDs) ==
  LET elems == ADTElems(sCoor, sConn, vtk, mIDs, eIDs) IN
  [nElem |-> Len(vtk),
   elems |-> elems,
   root  |-> BuildNode([k \in 1..Len(vtk) |-> k], elems)]

\* the object before its constructor has run
NoADT == [nElem |-> 0, elems |-> <<>>, root |-> BuildNode(<<>>, <<>>)]

IsEmpty(adt) == adt.nElem = 0

\* squared distance from p to the segment e: nearest point at an end or inside
ElemDist2(p, e) ==
  LET d  == Sub(e.b, e.a)
      w  == Sub(p, e.a)
      L2 == Dot(d, d)
      t  == Dot(w, d)
  IN IF L2 = 0 \/ t <= 0 THEN Frac(Dot(w, w), 1)
     ELSE IF t >= L2 THEN Frac(Dot(Sub(p, e.b), Sub(p, e.b)), 1)
     ELSE Frac(Dot(w, w) * L2 - t * t, L2)

\* a bound that is no lower bound: the squared distance to the far corner
BoxDist2_FarCorner(p, box) ==
  Max((p[1] - box.lo[1]) * (p[1] - box.lo[1]), (p[1] - box.hi[1]) * (p[1] - box.hi[1]))
  + Max((p[2] - box.lo[2]) * (p[2] - box.lo[2]), (p[2] - box.hi[2]) * (p[2] - box.hi[2]))

\* lower bound: squared distance from p to the box, 0 inside it
AxisDist2(x, lo, hi) ==
  IF x < lo THEN (lo - x) * (lo - x) ELSE IF x > hi THEN (x - hi) * (x - hi) ELSE 0

BoxDist2(p, box) ==
  AxisDist2(p[1], box.lo[1], box.hi[1]) + AxisDist2(p[2], box.lo[2], box.hi[2])

\* exact distance to each sub-element of a leaf; the best is replaced only by
\* a strictly smaller one
RECURSIVE LeafScan(_, _, _, _)
LeafScan(ids, elems, p, best) ==
  IF ids = <<>> THEN best
  ELSE LET d == ElemDist2(p, elems[Head(ids)])
       IN LeafScan(Tail(ids), elems, p,
            IF FracLess(d, best.dist)
            THEN [dist |-> d, elem |-> Head(ids), visited |-> best.visited + 1]
            ELSE [best EXCEPT !.visited = @ + 1])

\* branch and bound: a subtree whose lower bound is not smaller than the
\* current best is skipped; children are visited nearest first
RECURSIVE Search(_, _, _, _)
Search(node, elems, p, best) ==
  IF ~FracLess(Frac(BoxDist2(p, node.box), 1), best.dist) THEN best
  ELSE IF node.leaf THEN LeafScan(node.ids, elems, p, best)
  ELSE LET k1 == node.kids[1]
           k2 == node.kids[2]
           first  == IF BoxDist2(p, k2.box) < BoxDist2(p, k1.box) THEN k2 ELSE k1
           second == IF BoxDist2(p, k2.box) < BoxDist2(p, k1.box) THEN k1 ELSE k2
       IN Search(second, elems, p, Search(first, elems, p, best))

\* WallADT.DetermineNearestElement(coor, dist, markerID, elemID, rankID);
\* visited counts the sub-elements whose exact distance was computed
DetermineNearestElement(adt, p) ==
  LET r == Search(adt.root, adt.elems, p, [dist |-> Infinity, elem |-> 0, visited |-> 0])
  IN [dist     |-> r.dist,
      markerID |-> IF r.elem = 0 THEN 0 ELSE adt.elems[r.elem].markerID,
      elemID   |-> IF r.elem = 0 THEN 0 ELSE adt.elems[r.elem].elemID,
      rankID   |-> 0,
      visited  |-> r.visited]

(***************************************************************************)
(* The standard elements: per index the number of integration points, the  *)
(* basis functions in them (row i holds the weights of integration point   *)
(* i, as numerators over LagDen) and, for a boundary face, its linear      *)
(* sub-faces.  Index 0 of each table is a linear and index 1 a higher      *)
(* order element.                                                          *)
(***************************************************************************)
LagDen == 8

standardBoundaryFacesGrid ==
  << [VTK_Type |-> "LINE", NSubFaces |-> 1, NDOFsPerSubFace |-> 2,
      SubFaceConn |-> <<0, 1>>,
      NIntegration |-> 1, BasisFaceIntegration |-> <<4, 4>>],
     [VTK_Type |-> "LINE", NSubFaces |-> 2, NDOFsPerSubFace |-> 2,
      SubFaceConn |-> <<0, 1, 1, 2>>,
      NIntegration |-> 2, BasisFaceIntegration |-> <<3, 6, -1, -1, 6, 3>>] >>

standardElementsGrid ==
  << [NIntegration |-> 1, BasisFunctionsIntegration |-> <<2, 2, 2, 2>>],
     [NIntegration |-> 2, BasisFunctionsIntegration |-> <<3, 1, 3, 1, 1, 3, 1, 3>>] >>

standardMatchingFacesGrid ==
  << [NIntegration |-> 1, NDOFsFaceSide0 |-> 2, BasisFaceIntegrationSide0 |-> <<4, 4>>],
     [NIntegration |-> 2, NDOFsFaceSide0 |-> 2, BasisFaceIntegrationSide0 |-> <<6, 2, 2, 6>>] >>

(***************************************************************************)
(* The meshes the model runs on: MaxMarkers rows of 2*MaxSurfElem+1 points *)
(* (at least two rows), LagDen apart so that every interpolated coordinate *)
(* is an integer.  Marker m lies on row m; its element e spans the columns *)
(* 2e..2e+2 and is linear or quadratic in turn.  Volume element and        *)
(* matching face l join rows 0 and 1.                                      *)
(***************************************************************************)
KindsBC == {"HEAT_FLUX", "ISOTHERMAL", "EULER_WALL"}

Cols == 2 * MaxSurfElem + 1
MeshRows == Max(MaxMarkers, 2)
PointID(r, c) == r * Cols + c

GridPoints ==
  [p \in 1..(MeshRows * Cols) |->
     [coor |-> <<LagDen * ((p - 1) % Cols), LagDen * ((p - 1) \div Cols)>>]]

SurfElemAt(m, e) ==
  IF (m + e) % 2 = 0
  THEN [nDOFsGrid |-> 2, indStandardElement |-> 0, wallDistance |-> <<>>,
        DOFsGridFace |-> <<PointID(m, 2 * e), PointID(m, 2 * e + 2)>>]
  ELSE [nDOFsGrid |-> 3, indStandardElement |-> 1, wallDistance |-> <<>>,
        DOFsGridFace |-> <<PointID(m, 2 * e), PointID(m, 2 * e + 1), PointID(m, 2 * e + 2)>>]

BoundaryAt(m, periodic, n) ==
  [periodicBoundary |-> periodic,
   surfElem |-> [e \in 1..n |-> SurfElemAt(m, e - 1)],
   VecWallDistanceBoundaryFaces |-> <<>>]

VolElemAt(k) ==
  LET c == 2 * (k % MaxSurfElem) IN
  [indStandardElement |-> k % 2, nDOFsGrid |-> 4, wallDistance |-> <<>>,
   nodeIDsGrid |-> <<PointID(0, c), PointID(0, c + 2), PointID(1, c), PointID(1, c + 2)>>]

MatchingFaceAt(k) ==
  [indStandardElement |-> (k + 1) % 2, wallDistance |-> <<>>,
   DOFsGridFaceSide0 |-> <<PointID(0, k % Cols), PointID(1, k % Cols)>>]

(***************************************************************************)
(* The state when ComputeWall_Distance is entered.                         *)
(***************************************************************************)
LocalsInit ==
  /\ meshToSurface = <<>> /\ surfaceConn = <<>> /\ elemIDs = <<>>
  /\ VTK_TypeElem = <<>> /\ markerIDs = <<>> /\ surfaceCoor = <<>>
  /\ nVertex_SolidWall = 0
  /\ WallADT = NoADT
  /\ nIntPoints = 0 /\ iMarker = 0 /\ l = 0
  /\ coor = <<0, 0>> /\ dist = Zero
  /\ queried = {} /\ written = EmptyBag

AddrIdle == nInt = 0 /\ nDOFs = 0 /\ rows = {}

Init ==
  /\ pc = "entry"
  /\ meshPoints = GridPoints
  /\ KindBC \in [1..MaxMarkers -> KindsBC]
  /\ \E per \in [1..MaxMarkers -> BOOLEAN], cnt \in [1..MaxMarkers -> {0, MaxSurfElem}] :
       boundaries = [m \in 1..MaxMarkers |-> BoundaryAt(m - 1, per[m], cnt[m])]
  /\ volElem = [k \in 1..MaxVolElem |-> VolElemAt(k - 1)]
  /\ nVolElemOwned \in 0..MaxVolElem
  /\ matchingFaces = [k \in 1..MaxVolElem |-> MatchingFaceAt(k - 1)]
  /\ VecWallDistanceElements = <<>>
  /\ VecWallDistanceInternalMatchingFaces = <<>>
  /\ LocalsInit
  /\ AddrIdle

(***************************************************************************)
(* Step 1: coordinates and connectivity of the linear sub-elements of the  *)
(* wall boundaries.                                                        *)
(***************************************************************************)
nMarkers == Len(boundaries)

\* a marker condition that also takes an inviscid wall for a viscous one
WallKind_AnyWall(kind) == kind \in {"HEAT_FLUX", "ISOTHERMAL", "EULER_WALL"}

\* the check for a viscous wall of the extraction
WallKind(kind) == (kind = "HEAT_FLUX") \/ (kind = "ISOTHERMAL")

\* a marker test that forgets the periodic flag
ExtractsMarker_IgnorePeriodic(periodic, kind) == WallKind(kind)

\* the markers whose surface elements are extracted
ExtractsMarker(periodic, kind) == (~periodic) /\ WallKind(kind)

\* meshToSurface[surfElem[i].DOFsGridFace[j]] = 1 for every j
FlagPoints(mts, e) ==
  [p \in 1..Len(mts) |->
     IF \E j \in 1..e.nDOFsGrid : e.DOFsGridFace[j] = p - 1 THEN 1 ELSE mts[p]]

\* the entries pushed to surfaceConn for one surface element; ii runs through
\* connSubFaces over all its sub-faces
SubFaceNodes(e) ==
  LET std == standardBoundaryFacesGrid[e.indStandardElement + 1] IN
  [ii \in 1..(std.NSubFaces * std.NDOFsPerSubFace) |->
     e.DOFsGridFace[std.SubFaceConn[ii] + 1]]

\* the loop over the surface elements i.. of marker m; acc holds the five vectors
RECURSIVE ExtractElems(_, _, _, _)
ExtractElems(surfElem, i, m, acc) ==
  IF i >= Len(surfElem) THEN acc
  ELSE LET e   == surfElem[i + 1]
           std == standardBoundaryFacesGrid[e.indStandardElement + 1]
       IN ExtractElems(surfElem, i + 1, m,
            [mts  |-> FlagPoints(acc.mts, e),
             conn |-> acc.conn \o SubFaceNodes(e),
             mIDs |-> acc.mIDs \o [j \in 1..std.NSubFaces |-> m],
             vtk  |-> acc.vtk \o [j \in 1..std.NSubFaces |-> std.VTK_Type],
             eIDs |-> acc.eIDs \o [j \in 1..std.NSubFaces |-> i]])

Enter ==
  /\ pc = "entry"
  /\ meshToSurface' = [p \in 1..Len(meshPoints) |-> 0]
  /\ surfaceConn' = <<>> /\ elemIDs' = <<>> /\ VTK_TypeElem' = <<>> /\ markerIDs' = <<>>
  /\ iMarker' = 0
  /\ pc' = "step1"
  /\ UNCHANGED <<inputVars, meshVars, bufVars, surfaceCoor, nVertex_SolidWall,
                 WallADT, nIntPoints, l, queryVars, histVars, addrVars>>

\* one pass of the loop over the boundary markers
ExtractMarker ==
  /\ pc = "step1"
  /\ iMarker < nMarkers
  /\ LET b   == boundaries[iMarker + 1]
         acc == IF ExtractsMarker(b.periodicBoundary, KindBC[iMarker + 1])
                THEN ExtractElems(b.surfElem, 0, iMarker,
                       [mts |-> meshToSurface, conn |-> surfaceConn, mIDs |-> markerIDs,
                        vtk |-> VTK_TypeElem, eIDs |-> elemIDs])
                ELSE [mts |-> meshToSurface, conn |-> surfaceConn, mIDs |-> markerIDs,
                      vtk |-> VTK_TypeElem, eIDs |-> elemIDs]
     IN /\ meshToSurface' = acc.mts
        /\ surfaceConn' = acc.conn
        /\ markerIDs' = acc.mIDs
        /\ VTK_TypeElem' = acc.vtk
        /\ elemIDs' = acc.eIDs
  /\ iMarker' = iMarker + 1
  /\ UNCHANGED <<pc, inputVars, meshVars, bufVars, surfaceCoor, nVertex_SolidWall,
                 WallADT, nIntPoints, l, queryVars, histVars, addrVars>>

\* the value of ++nVertex_SolidWall
AssignedIndex_PreIncrement(nVertex) == nVertex + 1

\* the value of nVertex_SolidWall++
AssignedIndex(nVertex) == nVertex

\* the loop over the mesh points i.. that numbers the flagged ones and
\* stores their coordinates
RECURSIVE NumberWallPoints(_, _, _, _, _)
NumberWallPoints(i, mts, sCoor, nVertex, pts) ==
  IF i >= Len(pts) THEN [mts |-> mts, sCoor |-> sCoor, nVertex |-> nVertex]
  ELSE IF mts[i + 1] # 0
  THEN NumberWallPoints(i + 1, [mts EXCEPT ![i + 1] = AssignedIndex(nVertex)],
                        sCoor \o [k \in 1..nDim |-> pts[i + 1].coor[k]], nVertex + 1, pts)
  ELSE NumberWallPoints(i + 1, mts, sCoor, nVertex, pts)

CreateSurfaceCoor ==
  /\ pc = "step1"
  /\ iMarker = nMarkers
  /\ LET r == NumberWallPoints(0, meshToSurface, <<>>, 0, meshPoints)
     IN /\ meshToSurface' = r.mts
        /\ surfaceCoor' = r.sCoor
        /\ nVertex_SolidWall' = r.nVertex
  /\ pc' = "remap"
  /\ UNCHANGED <<inputVars, meshVars, bufVars, surfaceConn, elemIDs, VTK_TypeElem,
                 markerIDs, WallADT, loopVars, queryVars, histVars, addrVars>>

\* surfaceConn[i] = meshToSurface[surfaceConn[i]]
RemapConn ==
  /\ pc = "remap"
  /\ surfaceConn' = [k \in 1..Len(surfaceConn) |-> meshToSurface[surfaceConn[k] + 1]]
  /\ pc' = "step2"
  /\ UNCHANGED <<inputVars, meshVars, bufVars, meshToSurface, elemIDs, VTK_TypeElem,
                 markerIDs, surfaceCoor, nVertex_SolidWall, WallADT, loopVars,
                 queryVars, histVars, addrVars>>

(***************************************************************************)
(* Step 2: build the tree and release the vectors it was built from.       *)
(***************************************************************************)
BuildTree ==
  /\ pc = "step2"
  /\ WallADT' = BuildADT(nDim, surfaceCoor, surfaceConn, VTK_TypeElem, markerIDs, elemIDs)
  /\ markerIDs' = <<>> /\ VTK_TypeElem' = <<>> /\ elemIDs' = <<>>
  /\ surfaceConn' = <<>> /\ surfaceCoor' = <<>>
  /\ pc' = "step3_count"
  /\ UNCHANGED <<inputVars, meshVars, bufVars, meshToSurface, nVertex_SolidWall,
                 loopVars, queryVars, histVars, addrVars>>

(***************************************************************************)
(* Steps 3 to 5: the integration points of the owned volume elements, the  *)
(* internal matching faces and the boundary faces.                         *)
(***************************************************************************)
\* nIntPoints after the counting loop over the first n entities
CountIntPoints(ents, n, std) ==
  SumSeq([k \in 1..n |-> std[ents[k].indStandardElement + 1].NIntegration])

\* vector<su2double>::resize: new slots are value-initialised
Resize(buf, n) == [k \in 1..n |-> IF k <= Len(buf) THEN buf[k] ELSE Zero]

\* an integration-point loop that starts at 1
IntPoints_FromOne(n) == 1..(n - 1)

\* the values i takes in for(unsigned short i=0; i<nInt; ++i)
IntPoints(n) == 0..(n - 1)

\* an offset that advances by one slot per entity
NextOffset_OneSlot(off, n) == off + 1

\* nIntPoints += nInt
NextOffset(off, n) == off + n

\* a pointer assignment that also overwrites the standard-element index
SetWallDistance_Clobber(ent, off) ==
  [ent EXCEPT !.wallDistance = <<off>>, !.indStandardElement = 1 - @]

\* ent.wallDistance = buffer.data() + nIntPoints, the pointer held as the offset
SetWallDistance(ent, off) == [ent EXCEPT !.wallDistance = <<off>>]

\* const unsigned short jj = i*nDOFs
RowOffset(i, n) == UShort(i * n)

\* coor[j] = sum over k of lag[jj+k]*meshPoints[DOFs[k]].coor[j]
IntPointCoor(lag, i, n, DOFs, pts) ==
  [j \in 1..nDim |->
     SumSeq([k \in 1..n |-> lag[RowOffset(i, n) + (k - 1) + 1] * pts[DOFs[k] + 1].coor[j]])
       \div LagDen]

\* a viscous-wall test that knows the heat-flux wall only
viscousWall_HeatFluxOnly(kind) == kind = "HEAT_FLUX"

\* const bool viscousWall of step 5
viscousWall(kind) == (kind = "HEAT_FLUX") \/ (kind = "ISOTHERMAL")

\* if( WallADT.IsEmpty() ) of step 3
ZeroVolume(adt) == IsEmpty(adt)

\* if( WallADT.IsEmpty() ) of step 4
ZeroMatchingFace(adt) == IsEmpty(adt)

\* a test that leaves the empty tree out
ZeroBoundaryFace_WallOnly(adt, wall) == wall

\* if(WallADT.IsEmpty() || viscousWall) of step 5
ZeroBoundaryFace(adt, wall) == IsEmpty(adt) \/ wall

\* the values assigned to wallDistance[i]: 0.0, or dist of the query at coor
EntityDistances(zero, adt, lag, n, nd, DOFs, pts) ==
  [i \in IntPoints(n) |->
     IF zero THEN Zero
     ELSE DetermineNearestElement(adt, IntPointCoor(lag, i, nd, DOFs, pts)).dist]

\* the buffer after wallDistance[i] = d[i] through the pointer at offset off
StoreDistances(buf, off, d) ==
  [k \in 1..Len(buf) |-> IF (k - 1 - off) \in DOMAIN d THEN d[k - 1 - off] ELSE buf[k]]

\* history of the assignments and of the queries of one entity
Written(cat, m, off, n) == written (+) SetToBag({<<cat, m, off + i>> : i \in IntPoints(n)})
Queried(zero, cat, m, e, n) ==
  queried \cup (IF zero THEN {} ELSE {<<cat, m, e, i>> : i \in IntPoints(n)})

VolCount ==
  /\ pc = "step3_count"
  /\ VecWallDistanceElements' =
       Resize(VecWallDistanceElements,
              CountIntPoints(volElem, nVolElemOwned, standardElementsGrid))
  /\ nIntPoints' = 0 /\ l' = 0
  /\ pc' = "step3"
  /\ UNCHANGED <<inputVars, meshVars, VecWallDistanceInternalMatchingFaces, surfVars,
                 WallADT, iMarker, queryVars, histVars, addrVars>>

VolElemDistance ==
  /\ pc = "step3"
  /\ l < nVolElemOwned
  /\ LET ind  == volElem[l + 1].indStandardElement
         n    == standardElementsGrid[ind + 1].NIntegration
         lag  == standardElementsGrid[ind + 1].BasisFunctionsIntegration
         zero == ZeroVolume(WallADT)
         nd   == volElem[l + 1].nDOFsGrid
         DOFs == volElem[l + 1].nodeIDsGrid
     IN /\ volElem' = [volElem EXCEPT ![l + 1] = SetWallDistance(@, nIntPoints)]
        /\ nIntPoints' = NextOffset(nIntPoints, n)
        /\ VecWallDistanceElements' =
             StoreDistances(VecWallDistanceElements, nIntPoints,
                            EntityDistances(zero, WallADT, lag, n, nd, DOFs, meshPoints))
        /\ written' = Written("vol", 0, nIntPoints, n)
        /\ queried' = Queried(zero, "vol", 0, l, n)
  /\ l' = l + 1
  /\ UNCHANGED <<pc, inputVars, boundaries, matchingFaces,
                 VecWallDistanceInternalMatchingFaces, surfVars, WallADT, iMarker,
                 queryVars, addrVars>>

FaceCount ==
  /\ pc = "step3"
  /\ l = nVolElemOwned
  /\ VecWallDistanceInternalMatchingFaces' =
       Resize(VecWallDistanceInternalMatchingFaces,
              CountIntPoints(matchingFaces, Len(matchingFaces), standardMatchingFacesGrid))
  /\ nIntPoints' = 0 /\ l' = 0
  /\ pc' = "step4"
  /\ UNCHANGED <<inputVars, meshVars, VecWallDistanceElements, surfVars, WallADT,
                 iMarker, queryVars, histVars, addrVars>>

FaceDistance ==
  /\ pc = "step4"
  /\ l < Len(matchingFaces)
  /\ LET ind  == matchingFaces[l + 1].indStandardElement
         n    == standardMatchingFacesGrid[ind + 1].NIntegration
         nd   == standardMatchingFacesGrid[ind + 1].NDOFsFaceSide0
         lag  == standardMatchingFacesGrid[ind + 1].BasisFaceIntegrationSide0
         zero == ZeroMatchingFace(WallADT)
         DOFs == matchingFaces[l + 1].DOFsGridFaceSide0
     IN /\ matchingFaces' = [matchingFaces EXCEPT ![l + 1] = SetWallDistance(@, nIntPoints)]
        /\ nIntPoints' = NextOffset(nIntPoints, n)
        /\ VecWallDistanceInternalMatchingFaces' =
             StoreDistances(VecWallDistanceInternalMatchingFaces, nIntPoints,
                            EntityDistances(zero, WallADT, lag, n, nd, DOFs, meshPoints))
        /\ written' = Written("face", 0, nIntPoints, n)
        /\ queried' = Queried(zero, "face", 0, l, n)
  /\ l' = l + 1
  /\ UNCHANGED <<pc, inputVars, boundaries, volElem, VecWallDistanceElements, surfVars,
                 WallADT, iMarker, queryVars, addrVars>>

BndStart ==
  /\ pc = "step4"
  /\ l = Len(matchingFaces)
  /\ iMarker' = 0
  /\ pc' = "step5"
  /\ UNCHANGED <<inputVars, meshVars, bufVars, surfVars, WallADT, nIntPoints, l,
                 queryVars, histVars, addrVars>>

\* if( !boundaries[iMarker].periodicBoundary ) fails: on to the next marker
BndSkipPeriodic ==
  /\ pc = "step5"
  /\ iMarker < nMarkers
  /\ boundaries[iMarker + 1].periodicBoundary
  /\ iMarker' = iMarker + 1
  /\ UNCHANGED <<pc, inputVars, meshVars, bufVars, surfVars, WallADT, nIntPoints, l,
                 queryVars, histVars, addrVars>>

BndAllocate ==
  /\ pc = "step5"
  /\ iMarker < nMarkers
  /\ ~boundaries[iMarker + 1].periodicBoundary
  /\ LET surfElem == boundaries[iMarker + 1].surfElem
     IN boundaries' = [boundaries EXCEPT ![iMarker + 1].VecWallDistanceBoundaryFaces =
          Resize(@, CountIntPoints(surfElem, Len(surfElem), standardBoundaryFacesGrid))]
  /\ nIntPoints' = 0 /\ l' = 0
  /\ pc' = "step5_faces"
  /\ UNCHANGED <<inputVars, volElem, matchingFaces, bufVars, surfVars, WallADT, iMarker,
                 queryVars, histVars, addrVars>>

BndFaceDistance ==
  /\ pc = "step5_faces"
  /\ l < Len(boundaries[iMarker + 1].surfElem)
  /\ LET e    == boundaries[iMarker + 1].surfElem[l + 1]
         ind  == e.indStandardElement
         n    == standardBoundaryFacesGrid[ind + 1].NIntegration
         nd   == e.nDOFsGrid
         lag  == standardBoundaryFacesGrid[ind + 1].BasisFaceIntegration
         zero == ZeroBoundaryFace(WallADT, viscousWall(KindBC[iMarker + 1]))
         DOFs == e.DOFsGridFace
     IN /\ boundaries' =
             [boundaries EXCEPT
                ![iMarker + 1].surfElem[l + 1] = SetWallDistance(@, nIntPoints),
                ![iMarker + 1].VecWallDistanceBoundaryFaces =
                   StoreDistances(@, nIntPoints,
                     EntityDistances(zero, WallADT, lag, n, nd, DOFs, meshPoints))]
        /\ nIntPoints' = NextOffset(nIntPoints, n)
        /\ written' = Written("bnd", iMarker, nIntPoints, n)
        /\ queried' = Queried(zero, "bnd", iMarker, l, n)
  /\ l' = l + 1
  /\ UNCHANGED <<pc, inputVars, volElem, matchingFaces, bufVars, surfVars, WallADT,
                 iMarker, queryVars, addrVars>>

BndNextMarker ==
  /\ pc = "step5_faces"
  /\ l = Len(boundaries[iMarker + 1].surfElem)
  /\ iMarker' = iMarker + 1
  /\ pc' = "step5"
  /\ UNCHANGED <<inputVars, meshVars, bufVars, surfVars, WallADT, nIntPoints, l,
                 queryVars, histVars, addrVars>>

Return ==
  /\ pc = "step5"
  /\ iMarker = nMarkers
  /\ pc' = "done"
  /\ UNCHANGED <<inputVars, meshVars, bufVars, surfVars, WallADT, loopVars,
                 queryVars, histVars, addrVars>>

Next ==
  \/ Enter \/ ExtractMarker \/ CreateSurfaceCoor \/ RemapConn \/ BuildTree
  \/ VolCount \/ VolElemDistance \/ FaceCount \/ FaceDistance
  \/ BndStart \/ BndSkipPeriodic \/ BndAllocate \/ BndFaceDistance \/ BndNextMarker
  \/ Return

Spec == Init /\ [][Next]_vars

(***************************************************************************)
(* The query alone: a surface of up to MaxSubElems segments between the    *)
(* points of SurfaceGrid is handed to the tree, and the distance of a      *)
(* point of the query grid is determined.                                  *)
(***************************************************************************)
SurfaceGrid == << <<0, 0>>, <<3, 0>>, <<1, 1>>, <<0, 3>>, <<3, 2>> >>

\* the segments between two grid points (a point alone is a zero-length segment)
SegmentChoices ==
  {<<a, b>> : a \in 0..(Len(SurfaceGrid) - 1), b \in 0..(Len(SurfaceGrid) - 1)}

SegmentLess(s, t) == s[1] < t[1] \/ (s[1] = t[1] /\ s[2] < t[2])

\* surfaces: 1..MaxSubElems distinct segments a <= b, in increasing order
Surfaces ==
  UNION {{s \in [1..n -> {c \in SegmentChoices : c[1] <= c[2]}] :
            \A k \in 1..(n - 1) : SegmentLess(s[k], s[k + 1])} : n \in 1..MaxSubElems}

\* the vector that holds the tuples of n entries one after the other
Flat(tuples, n) ==
  [k \in 1..(n * Len(tuples)) |-> tuples[((k - 1) \div n) + 1][((k - 1) % n) + 1]]

QueryGrid == {<<x, y>> : x \in 0..MaxQuery, y \in 0..MaxQuery}

MeshIdle ==
  /\ meshPoints = <<>> /\ KindBC = <<>> /\ boundaries = <<>>
  /\ volElem = <<>> /\ nVolElemOwned = 0 /\ matchingFaces = <<>>
  /\ VecWallDistanceElements = <<>>
  /\ VecWallDistanceInternalMatchingFaces = <<>>

InitADT ==
  /\ pc = "adt_build"
  /\ MeshIdle
  /\ LocalsInit
  /\ AddrIdle

\* the vectors of a surface are handed to the constructor
ADT_Build ==
  /\ pc = "adt_build"
  /\ \E s \in Surfaces :
       WallADT' = BuildADT(nDim,
                    Flat(SurfaceGrid, nDim), Flat(s, 2),
                    [k \in 1..Len(s) |-> "LINE"],
                    [k \in 1..Len(s) |-> 0],
                    [k \in 1..Len(s) |-> k - 1])
  /\ pc' = "adt_query"
  /\ UNCHANGED <<inputVars, meshVars, bufVars, surfVars, loopVars, queryVars, histVars,
                 addrVars>>

\* WallADT.DetermineNearestElement(coor, dist, markerID, elemID, rankID)
ADT_Query ==
  /\ pc = "adt_query"
  /\ ~IsEmpty(WallADT)
  /\ \E p \in QueryGrid :
       /\ coor' = p
       /\ dist' = DetermineNearestElement(WallADT, p).dist
  /\ pc' = "adt_done"
  /\ UNCHANGED <<inputVars, meshVars, bufVars, surfVars, WallADT, loopVars, histVars,
                 addrVars>>

NextADT == ADT_Build \/ ADT_Query

SpecADT == InitADT /\ [][NextADT]_vars

(***************************************************************************)
(* The row offset alone: for an entity with nInt integration points and    *)
(* nDOFs grid DOFs, jj is computed for up to MaxRows of its integration    *)
(* points.                                                                 *)
(***************************************************************************)
\* counts of integration points and of grid DOFs of elements of increasing
\* order, up to the ends of the range of an unsigned short.  i*nDOFs is an
\* int multiplication: the samples keep it below 2^31, where it is defined.
NIntSamples  == {1, 2, 3, 4, 8, 27, 64, 125, 216, 343, 512, 1000, 32768, 65535}
NDOFsSamples == {1, 2, 3, 4, 8, 27, 64, 125, 216, 343, 512, 1000, 32768}

InitAddr ==
  /\ pc = "addr"
  /\ MeshIdle
  /\ LocalsInit
  /\ nInt \in NIntSamples
  /\ nDOFs \in NDOFsSamples
  /\ rows = {}

\* one pass of the loop over the integration points, for some i < nInt
AddrRow ==
  /\ pc = "addr"
  /\ Cardinality(rows) < MaxRows
  /\ \E i \in {0, 1, 2, 65, 66, 303, 304, nInt - 1} :
       /\ i < nInt
       /\ \A r \in rows : r.i # i
       /\ rows' = rows \cup {[i |-> i, jj |-> RowOffset(i, nDOFs)]}
  /\ UNCHANGED <<pc, inputVars, meshVars, bufVars, surfVars, WallADT, loopVars,
                 queryVars, histVars, nInt, nDOFs>>

NextAddr == AddrRow

SpecAddr == InitAddr /\ [][NextAddr]_vars

(***************************************************************************)
(* Properties.                                                             *)
(***************************************************************************)
Done == pc = "done"
Markers == 1..Len(boundaries)
IsWallKind(m) == KindBC[m] \in {"HEAT_FLUX", "ISOTHERMAL"}
NIntVol(k)  == standardElementsGrid[volElem[k].indStandardElement + 1].NIntegration
NIntFace(k) == standardMatchingFacesGrid[matchingFaces[k].indStandardElement + 1].NIntegration
NIntBnd(m, e) ==
  standardBoundaryFacesGrid[boundaries[m].surfElem[e].indStandardElement + 1].NIntegration
AllZero(buf) == \A k \in 1..Len(buf) : buf[k] = Zero
\* the slots [off, off+n) of a buffer all hold 0
SliceZero(buf, ptr, n) ==
  ptr # <<>> => \A i \in 0..(n - 1) : ptr[1] + i < Len(buf) /\ buf[ptr[1] + i + 1] = Zero

\* C1: when no marker has kind HEAT_FLUX or ISOTHERMAL, every distance stored
\* for an integration point of an owned volume element, of an internal
\* matching face and of a boundary face is exactly 0, at any moment of the
\* call and after it.
C1_EmptyIndexFallback ==
  (\A m \in Markers : ~IsWallKind(m)) =>
     /\ AllZero(VecWallDistanceElements)
     /\ AllZero(VecWallDistanceInternalMatchingFaces)
     /\ \A m \in Markers : AllZero(boundaries[m].VecWallDistanceBoundaryFaces)
     /\ \A k \in 1..nVolElemOwned :
          SliceZero(VecWallDistanceElements, volElem[k].wallDistance, NIntVol(k))
     /\ \A k \in 1..Len(matchingFaces) :
          SliceZero(VecWallDistanceInternalMatchingFaces, matchingFaces[k].wallDistance,
                    NIntFace(k))
     /\ \A m \in Markers : \A e \in 1..Len(boundaries[m].surfElem) :
          SliceZero(boundaries[m].VecWallDistanceBoundaryFaces,
                    boundaries[m].surfElem[e].wallDistance, NIntBnd(m, e))
     /\ Done => /\ \A k \in 1..nVolElemOwned : volElem[k].wallDistance # <<>>
                /\ \A k \in 1..Len(matchingFaces) : matchingFaces[k].wallDistance # <<>>

\* the call has returned on a mesh without wall markers that has owned volume
\* elements and faces on a boundary that is not periodic
C1_Witness ==
  /\ Done
  /\ \A m \in Markers : ~IsWallKind(m)
  /\ Len(VecWallDistanceElements) > 0
  /\ Len(VecWallDistanceInternalMatchingFaces) > 0
  /\ \E m \in Markers : Len(boundaries[m].VecWallDistanceBoundaryFaces) > 0

\* C2: for every surface element of a marker of kind HEAT_FLUX or ISOTHERMAL
\* and each of its integration points, no nearest-element query is issued,
\* and the distance stored in its slice is exactly 0; a marker that is not
\* periodic has such a slice for every element once it has been passed.
C2_ZeroSelfDistance ==
  \A m \in Markers : IsWallKind(m) =>
    \A e \in 1..Len(boundaries[m].surfElem) :
      /\ \A q \in queried : ~(q[1] = "bnd" /\ q[2] = m - 1 /\ q[3] = e - 1)
      /\ SliceZero(boundaries[m].VecWallDistanceBoundaryFaces,
                   boundaries[m].surfElem[e].wallDistance, NIntBnd(m, e))
      /\ (Done /\ ~boundaries[m].periodicBoundary) =>
            boundaries[m].surfElem[e].wallDistance # <<>>

\* the call has returned, queries were issued, and an ISOTHERMAL marker that is
\* not periodic holds the zero distances of its faces
C2_Witness ==
  /\ Done
  /\ queried # {}
  /\ \E m \in Markers :
       /\ KindBC[m] = "ISOTHERMAL"
       /\ ~boundaries[m].periodicBoundary
       /\ Len(boundaries[m].VecWallDistanceBoundaryFaces) > 0

\* the state after the loop over the markers of step 1, before the tree is built
Extracted == pc \in {"remap", "step2"}
Qualifies(m) == (~boundaries[m].periodicBoundary) /\ IsWallKind(m)
EmitsFor(m) == \E k \in 1..Len(markerIDs) : markerIDs[k] = m - 1
\* the mesh points of the surface elements of the markers that qualify
ElemPoints(e) == {e.DOFsGridFace[j] : j \in 1..e.nDOFsGrid}
WallPoints ==
  UNION {UNION {ElemPoints(boundaries[m].surfElem[e]) : e \in 1..Len(boundaries[m].surfElem)} :
         m \in {x \in Markers : Qualifies(x)}}
SubFacesOf(m) ==
  SumSeq([e \in 1..Len(boundaries[m].surfElem) |->
    standardBoundaryFacesGrid[boundaries[m].surfElem[e].indStandardElement + 1].NSubFaces])

\* C3 as stated: sub-elements are emitted for a marker if and only if it is not
\* periodic and of kind HEAT_FLUX or ISOTHERMAL.
C3_Original_EmitsIffQualifies ==
  Extracted => \A m \in Markers : EmitsFor(m) <=> Qualifies(m)

\* C3, amended: sub-elements are emitted for a marker if and only if it is not
\* periodic, of kind HEAT_FLUX or ISOTHERMAL and has a surface element, and
\* then one per linear sub-face of each of its surface elements; a periodic
\* marker contributes no sub-element and no surface point; when no marker
\* qualifies, the sub-element vectors and the coordinate buffer are empty.
C3_WallMarkerSelection ==
  Extracted =>
    /\ \A m \in Markers :
         /\ EmitsFor(m) <=> (Qualifies(m) /\ Len(boundaries[m].surfElem) > 0)
         /\ Cardinality({k \in 1..Len(markerIDs) : markerIDs[k] = m - 1})
              = IF Qualifies(m) THEN SubFacesOf(m) ELSE 0
         /\ boundaries[m].periodicBoundary => ~EmitsFor(m)
    /\ nVertex_SolidWall = Cardinality(WallPoints)
    /\ Len(surfaceCoor) = nDim * Cardinality(WallPoints)
    /\ Len(VTK_TypeElem) = Len(markerIDs) /\ Len(elemIDs) = Len(markerIDs)
    /\ (\A m \in Markers : ~Qualifies(m)) =>
         markerIDs = <<>> /\ surfaceConn = <<>> /\ surfaceCoor = <<>>

\* the extraction has run over a periodic HEAT_FLUX marker with surface
\* elements and over a wall marker that emitted sub-elements
C3_Witness ==
  /\ pc = "step2"
  /\ markerIDs # <<>>
  /\ \E m \in Markers :
       /\ boundaries[m].periodicBoundary
       /\ KindBC[m] = "HEAT_FLUX"
       /\ Len(boundaries[m].surfElem) > 0

\* prefix sums of the integration-point counts
RECURSIVE SumTo(_, _)
SumTo(f, n) == IF n = 0 THEN 0 ELSE f[n] + SumTo(f, n - 1)
VolCounts  == [k \in 1..nVolElemOwned |-> NIntVol(k)]
FaceCounts == [k \in 1..Len(matchingFaces) |-> NIntFace(k)]
BndCounts(m) == [e \in 1..Len(boundaries[m].surfElem) |-> NIntBnd(m, e)]

\* buffer length = sum of the counts; slice k starts at the sum of the counts
\* before it; two slices do not overlap
Sized(buf, ptrs, counts) ==
  /\ Len(buf) = SumTo(counts, Len(counts))
  /\ \A k \in 1..Len(counts) : ptrs[k] = <<SumTo(counts, k - 1)>>
  /\ \A j, k \in 1..Len(counts) :
       j # k => \/ ptrs[j][1] + counts[j] <= ptrs[k][1]
                \/ ptrs[k][1] + counts[k] <= ptrs[j][1]

VolSized ==
  Sized(VecWallDistanceElements,
        [k \in 1..nVolElemOwned |-> volElem[k].wallDistance], VolCounts)
FaceSized ==
  Sized(VecWallDistanceInternalMatchingFaces,
        [k \in 1..Len(matchingFaces) |-> matchingFaces[k].wallDistance], FaceCounts)
BndSized(m) ==
  Sized(boundaries[m].VecWallDistanceBoundaryFaces,
        [e \in 1..Len(boundaries[m].surfElem) |-> boundaries[m].surfElem[e].wallDistance],
        BndCounts(m))

\* C4 as stated: in each of the three categories the allocated length equals
\* the sum of the counts of all entities of the category; for the boundary
\* faces: of all faces of all markers.
C4_Original_EveryCategory ==
  Done =>
    /\ VolSized
    /\ FaceSized
    /\ SumSeq([m \in Markers |-> Len(boundaries[m].VecWallDistanceBoundaryFaces)])
         = SumSeq([m \in Markers |-> SumTo(BndCounts(m), Len(BndCounts(m)))])

\* C4, amended: for the owned volume elements, for the internal matching
\* faces and for the boundary faces of each marker that is not periodic (each
\* such marker has a buffer of its own), the length of the buffer equals the
\* sum of the integration-point counts of its entities, each entity's slice
\* starts at the sum of the counts of the entities before it, and the slices
\* of two entities do not overlap.
C4_BufferSizing ==
  Done =>
    /\ VolSized
    /\ FaceSized
    /\ \A m \in Markers : ~boundaries[m].periodicBoundary => BndSized(m)

\* the call has returned with two owned volume elements and with a marker
\* that is not periodic and has two faces
C4_Witness ==
  /\ Done
  /\ nVolElemOwned >= 2
  /\ \E m \in Markers :
       /\ ~boundaries[m].periodicBoundary
       /\ Len(boundaries[m].surfElem) >= 2
       /\ boundaries[m].surfElem[2].wallDistance # <<0>>

\* C6: DetermineNearestElement is never called while the tree is empty: with
\* no sub-element extracted the number of queries issued is 0.
C6_QueryGuard == IsEmpty(WallADT) => queried = {}

\* the call has returned with an empty tree after passing owned volume
\* elements, matching faces and the faces of a boundary that is not periodic
C6_Witness ==
  /\ Done
  /\ IsEmpty(WallADT)
  /\ nVolElemOwned > 0
  /\ Len(matchingFaces) > 0
  /\ \E m \in Markers : Len(boundaries[m].VecWallDistanceBoundaryFaces) > 0

\* the smallest exact distance over all sub-elements the tree holds
BruteForceDist(elems, p) ==
  CHOOSE d \in {ElemDist2(p, elems[k]) : k \in 1..Len(elems)} :
    \A k \in 1..Len(elems) : ~FracLess(ElemDist2(p, elems[k]), d)

\* C5: for every query point and every non-empty set of indexed sub-elements,
\* the distance returned by the pruned search equals the minimum over all
\* indexed sub-elements of the exact point-to-element distance.
C5_BruteForceEquivalence ==
  pc = "adt_done" => dist = BruteForceDist(WallADT.elems, coor)

\* a query off the surface that found its answer without computing the exact
\* distance to every one of at least three sub-elements: a subtree was skipped
C5_Witness ==
  /\ pc = "adt_done"
  /\ WallADT.nElem >= 3
  /\ dist # Zero
  /\ DetermineNearestElement(WallADT, coor).visited < WallADT.nElem

\* every field of an entity but its wallDistance pointer
SameButPointer(a, b) == [a EXCEPT !.wallDistance = <<>>] = [b EXCEPT !.wallDistance = <<>>]
SameButPointers(s, t) ==
  Len(s) = Len(t) /\ \A k \in 1..Len(s) : SameButPointer(s[k], t[k])
InputsKept ==
  /\ meshPoints' = meshPoints
  /\ KindBC' = KindBC
  /\ nVolElemOwned' = nVolElemOwned
  /\ Len(boundaries') = Len(boundaries)
  /\ \A m \in Markers : boundaries'[m].periodicBoundary = boundaries[m].periodicBoundary

\* C7 as stated: only the three wall-distance buffers change.
C7_Original_OnlyBuffers ==
  [][/\ InputsKept
     /\ volElem' = volElem
     /\ matchingFaces' = matchingFaces
     /\ \A m \in Markers : boundaries'[m].surfElem = boundaries[m].surfElem]_vars

\* C7, amended: besides the three wall-distance buffers, the call changes the
\* wallDistance pointer of the volume elements, matching faces and boundary
\* faces it assigns a slice to, and nothing else of the mesh: the point
\* coordinates, the markers and their periodic flags, every element's
\* node-index list, DOF count and standard-element index, the number of
\* owned elements and the configuration stay as they were.
C7_SideEffectFrame ==
  [][/\ InputsKept
     /\ SameButPointers(volElem', volElem)
     /\ SameButPointers(matchingFaces', matchingFaces)
     /\ \A m \in Markers :
          SameButPointers(boundaries'[m].surfElem, boundaries[m].surfElem)]_vars

\* the call has returned after assigning slices to volume elements, matching
\* faces and boundary faces and after storing a distance that is not 0
C7_Witness ==
  /\ Done
  /\ \E k \in 1..Len(volElem) : volElem[k].wallDistance # <<>>
  /\ \E k \in 1..Len(matchingFaces) : matchingFaces[k].wallDistance # <<>>
  /\ \E m \in Markers : \E e \in 1..Len(boundaries[m].surfElem) :
       boundaries[m].surfElem[e].wallDistance # <<>>
  /\ ~AllZero(VecWallDistanceElements)

\* C8: the remap turns every connectivity entry into an index below the
\* number of points of the local coordinate buffer, the coordinates stored
\* at that index are those of the mesh point the entry named before, and two
\* different mesh points on wall elements get different local indices.
C8_LocalIndexRemap ==
  [][pc = "remap" =>
       /\ Len(surfaceConn') = Len(surfaceConn)
       /\ Len(surfaceCoor) = nDim * nVertex_SolidWall
       /\ \A k \in 1..Len(surfaceConn) :
            /\ surfaceConn'[k] >= 0
            /\ surfaceConn'[k] < nVertex_SolidWall
            /\ SurfPoint(surfaceCoor, surfaceConn'[k]) = meshPoints[surfaceConn[k] + 1].coor
       /\ \A j, k \in 1..Len(surfaceConn) :
            surfaceConn[j] # surfaceConn[k] => surfaceConn'[j] # surfaceConn'[k]]_vars

\* the connectivity has been remapped for a wall whose first point, with
\* local index 0, is not mesh point 0, next to mesh points off the wall
C8_Witness ==
  /\ pc = "step2"
  /\ nVertex_SolidWall >= 3
  /\ nVertex_SolidWall < Len(meshPoints)
  /\ \E k \in 1..Len(surfaceConn) : surfaceConn[k] = 0
  /\ meshPoints[1].coor # SurfPoint(surfaceCoor, 0)

\* the distance the query returns for integration point i of an entity
QueryAt(lag, i, nd, DOFs) ==
  DetermineNearestElement(WallADT, IntPointCoor(lag, i, nd, DOFs, meshPoints)).dist

\* the entity has a slice, and slot i of it was assigned once and holds d[i]
Populated(buf, cat, m, ptr, n, d) ==
  /\ ptr # <<>>
  /\ \A i \in 0..(n - 1) :
       /\ ptr[1] + i < Len(buf)
       /\ CopiesIn(<<cat, m, ptr[1] + i>>, written) = 1
       /\ buf[ptr[1] + i + 1] = d[i]

VolPopulated(k) ==
  LET std == standardElementsGrid[volElem[k].indStandardElement + 1] IN
  Populated(VecWallDistanceElements, "vol", 0, volElem[k].wallDistance, std.NIntegration,
    [i \in 0..(std.NIntegration - 1) |->
       IF IsEmpty(WallADT) THEN Zero
       ELSE QueryAt(std.BasisFunctionsIntegration, i, volElem[k].nDOFsGrid,
                    volElem[k].nodeIDsGrid)])

FacePopulated(k) ==
  LET std == standardMatchingFacesGrid[matchingFaces[k].indStandardElement + 1] IN
  Populated(VecWallDistanceInternalMatchingFaces, "face", 0, matchingFaces[k].wallDistance,
    std.NIntegration,
    [i \in 0..(std.NIntegration - 1) |->
       IF IsEmpty(WallADT) THEN Zero
       ELSE QueryAt(std.BasisFaceIntegrationSide0, i, std.NDOFsFaceSide0,
                    matchingFaces[k].DOFsGridFaceSide0)])

BndPopulated(m, e) ==
  LET f   == boundaries[m].surfElem[e]
      std == standardBoundaryFacesGrid[f.indStandardElement + 1]
  IN Populated(boundaries[m].VecWallDistanceBoundaryFaces, "bnd", m - 1, f.wallDistance,
       std.NIntegration,
       [i \in 0..(std.NIntegration - 1) |->
          IF IsEmpty(WallADT) \/ IsWallKind(m) THEN Zero
          ELSE QueryAt(std.BasisFaceIntegration, i, f.nDOFsGrid, f.DOFsGridFace)])

NoSlotTwice == \A slot \in BagToSet(written) : CopiesIn(slot, written) = 1

\* C9 as stated: on return every owned volume element, every internal
\* matching face and every boundary face of every marker has a slice whose
\* slots were each written once.
C9_Original_EveryMarker ==
  Done =>
    /\ \A k \in 1..nVolElemOwned : VolPopulated(k)
    /\ \A k \in 1..Len(matchingFaces) : FacePopulated(k)
    /\ \A m \in Markers : \A e \in 1..Len(boundaries[m].surfElem) : BndPopulated(m, e)

\* C9, amended: on return every owned volume element, every internal matching
\* face and every boundary face of every marker that is not periodic has a
\* slice of its buffer, and every integration point of it had its slot
\* written exactly once: with 0 if the tree is empty or the entity is a face
\* of a wall marker, otherwise with the distance the query returned for the
\* coordinates interpolated for that point.
C9_CompletePopulation ==
  Done =>
    /\ \A k \in 1..nVolElemOwned : VolPopulated(k)
    /\ \A k \in 1..Len(matchingFaces) : FacePopulated(k)
    /\ \A m \in Markers : ~boundaries[m].periodicBoundary =>
         \A e \in 1..Len(boundaries[m].surfElem) : BndPopulated(m, e)
    /\ NoSlotTwice

\* the call has returned on a mesh with owned volume elements whose queries
\* returned distances that are not 0, with a wall in the tree, and with a
\* periodic marker that has faces
C9_Witness ==
  /\ Done
  /\ nVolElemOwned > 0
  /\ ~AllZero(VecWallDistanceElements)
  /\ \E q \in queried : q[1] = "face"
  /\ \E m \in Markers :
       boundaries[m].periodicBoundary /\ Len(boundaries[m].surfElem) > 0

\* C10 as stated: the row offset jj of integration point i equals i*nDOFs, and
\* two integration points of an entity never read the same row.
C10_RowOffsetExact ==
  /\ \A r \in rows : r.jj = r.i * nDOFs
  /\ \A r, t \in rows : r.i # t.i => r.jj # t.jj

====
